---- MODULE Spec2Model ----
(***************************************************************************)
(* Model of the completion protocol of src/src/complete.ts: complete(),    *)
(* its event loop, extractSessionId() and streamComplete().                *)
(***************************************************************************)
EXTENDS Integers, Sequences, FiniteSets, TLC

(***************************************************************************)
(* Bounds of the model.                                                    *)
(***************************************************************************)
\* Largest number of events one call consumes from the raw stream.
MaxEvents == 3
\* init() calls of one SessionManager, each of which may acquire a runtime.
MaxInits == 3
\* close() calls of one SessionManager.
MaxCloses == 3
\* Length of a provider or of a model id handed to formatModelPath.
MaxSegLen == 2
\* Length of a path handed to parseModelPath.
MaxPathLen == 3
\* Length of the initialModels list handed to createModelRegistry.
MaxInitial == 2
\* add() calls on one registry.
MaxAdds == 2
\* Length of options.messages.
MaxMessages == 2
\* Units of time that pass during a call.
MaxTicks == 2

(***************************************************************************)
(* JavaScript values, as far as the code inspects them.                    *)
(***************************************************************************)
Undef == [t |-> "undefined"]
Null == [t |-> "null"]
Str(s) == [t |-> "string", v |-> s]
Num(n) == [t |-> "number", v |-> n]

\* JavaScript truthiness (the `if (x)`, `!x` and `x && ...` tests of the code).
Truthy(x) ==
  CASE x.t = "undefined" -> FALSE
    [] x.t = "null" -> FALSE
    [] x.t = "string" -> x.v # ""
    [] x.t = "number" -> x.v # 0
    [] OTHER -> TRUE

\* The `x ?? d` operator: d when x is null or undefined, else the value of x.
Coalesce(x, d) == IF x.t \in {"undefined", "null"} THEN d ELSE x.v

(***************************************************************************)
(* Remote events: {type, properties?: {sessionID?, info?, part?, status?}} *)
(***************************************************************************)
Props(sessionID, info, part, status) ==
  [t |-> "object", sessionID |-> sessionID, info |-> info, part |-> part,
   status |-> status]
Info(sessionID, role, tokens) ==
  [t |-> "object", sessionID |-> sessionID, role |-> role, tokens |-> tokens]
Tokens(input, output) == [t |-> "object", input |-> input, output |-> output]
Part(type, text) == [t |-> "object", type |-> type, text |-> text]
Status(type) == [t |-> "object", type |-> type]
Event(type, properties) == [t |-> "object", type |-> type, properties |-> properties]

\* The session id the remote runtime issues to the modelled call.
OwnId == "s1"
OtherId == "s2"

TextEvent(sid, text) ==
  Event("message.part.updated", Props(sid, Undef, Part(Str("text"), text), Undef))
UsageEvent(sid, role, tokens) ==
  Event("message.updated", Props(Undef, Info(sid, role, tokens), Undef, Undef))
StatusEvent(type, sid, status) == Event(type, Props(sid, Undef, Undef, status))

\* The events the remote runtime may deliver on the multiplexed stream.
Events ==
  { TextEvent(Str(OwnId), Str("a")),
    TextEvent(Str(OwnId), Str("ab")),
    TextEvent(Str(OwnId), Str("abc")),
    TextEvent(Str(OtherId), Str("x")),
    TextEvent(Str(""), Str("z")),
    TextEvent(Undef, Undef),
    Event("message.part.updated",
          Props(Str(OwnId), Undef, Part(Str("tool"), Str("t")), Undef)),
    UsageEvent(Str(OwnId), Str("assistant"), Tokens(Num(1), Num(2))),
    UsageEvent(Str(OwnId), Str("assistant"), Undef),
    UsageEvent(Str(OwnId), Str("user"), Tokens(Num(3), Num(1))),
    UsageEvent(Str(OtherId), Str("assistant"), Tokens(Num(2), Num(2))),
    StatusEvent("session.idle", Str(OwnId), Undef),
    StatusEvent("session.idle", Str(OtherId), Undef),
    StatusEvent("session.status", Str(OwnId), Status(Str("busy"))),
    StatusEvent("session.status", Str(OwnId), Status(Str("idle"))),
    Event("session.idle", Undef),
    Null }

(***************************************************************************)
(* extractSessionId(event)                                                 *)
(***************************************************************************)
extractSessionId(event) ==
  LET props == event.properties IN
  IF ~Truthy(props) THEN Undef
  ELSE IF props.sessionID.t = "string" THEN props.sessionID
  ELSE IF Truthy(props.info) /\ props.info.t = "object"
          /\ props.info.sessionID.t = "string"
       THEN props.info.sessionID
  ELSE Undef

\* The filter of the loop: `if (eventSessionId && eventSessionId !== sessionId) continue`
\* lets the event through exactly when this holds.
Accepts(event, sessionId) ==
  LET eventSessionId == extractSessionId(event) IN
  ~(Truthy(eventSessionId) /\ eventSessionId # Str(sessionId))

(***************************************************************************)
(* The accumulator of the event loop.                                      *)
(***************************************************************************)
ZeroUsage == [inputTokens |-> 0, outputTokens |-> 0, totalTokens |-> 0]

\* Mutant of AssignText: the text of the event is appended to the accumulated text.
AppendText(old, part) == old \o Coalesce(part.text, "")

\* `responseText = (part.text as string) ?? ""`
AssignText(old, part) == Coalesce(part.text, "")

\* Mutant of AssignUsage: the counts of the event are added to the usage.
AddUsage(old, tokens) ==
  [inputTokens |-> old.inputTokens + Coalesce(tokens.input, 0),
   outputTokens |-> old.outputTokens + Coalesce(tokens.output, 0),
   totalTokens |-> old.totalTokens + Coalesce(tokens.input, 0)
                     + Coalesce(tokens.output, 0)]

\* `usage = {inputTokens: ..., outputTokens: ..., totalTokens: ...}`
AssignUsage(old, tokens) ==
  [inputTokens |-> Coalesce(tokens.input, 0),
   outputTokens |-> Coalesce(tokens.output, 0),
   totalTokens |-> Coalesce(tokens.input, 0) + Coalesce(tokens.output, 0)]

\* `if (!status || status.type === "idle") break`
IsTerminalStatus(status) ==
  ~Truthy(status) \/ (status.type.t = "string" /\ status.type.v = "idle")

\* One iteration of the for-await body on a delivered event: what the loop
\* does next ("continue", "break", or "throw" for the TypeError of reading a
\* field of undefined properties) and the accumulator after it.
LoopBody(event, isAborted, sessionId, text, use) ==
  LET same == [ctl |-> "continue", text |-> text, usage |-> use] IN
  IF isAborted THEN [same EXCEPT !.ctl = "break"]
  ELSE IF ~Truthy(event) THEN same
  ELSE IF ~Accepts(event, sessionId) THEN same
  ELSE IF event.type \in {"message.part.updated", "message.updated",
                          "session.idle", "session.status"}
          /\ event.properties.t \in {"undefined", "null"}
       THEN [same EXCEPT !.ctl = "throw"]
  ELSE IF event.type = "message.part.updated"
       THEN LET part == event.properties.part IN
            IF part.t = "object" /\ part.type.t = "string" /\ part.type.v = "text"
            THEN [same EXCEPT !.text = AssignText(text, part)]
            ELSE same
  ELSE IF event.type = "message.updated"
       THEN LET info == event.properties.info IN
            IF info.t = "object" /\ info.role.t = "string"
               /\ info.role.v = "assistant" /\ Truthy(info.tokens)
            THEN [same EXCEPT !.usage = AssignUsage(use, info.tokens)]
            ELSE same
  ELSE IF event.type \in {"session.idle", "session.status"}
       THEN IF IsTerminalStatus(event.properties.status)
            THEN [same EXCEPT !.ctl = "break"]
            ELSE same
  ELSE same

(***************************************************************************)
(* The request: options.prompt, options.messages, options.systemPrompt,    *)
(* and the prompt parts built from them (lines 116-135).                   *)
(***************************************************************************)
Message(role, content) == [role |-> role, content |-> content]
\* A message content that is a list of Content objects, not a string.
ContentList == [t |-> "array"]
Messages(items) == [t |-> "array", items |-> items]
Request(prompt, messages, systemPrompt) ==
  [prompt |-> prompt, messages |-> messages, systemPrompt |-> systemPrompt]

TextPart(text) == [type |-> "text", text |-> text]

\* `.filter((m) => m.role === "user")`
RECURSIVE UserMessages(_)
UserMessages(items) ==
  IF items = <<>> THEN <<>>
  ELSE (IF Head(items).role = "user" THEN << Head(items) >> ELSE <<>>)
       \o UserMessages(Tail(items))

\* `.map((m) => (typeof m.content === "string" ? m.content : ""))`
RECURSIVE ContentTexts(_)
ContentTexts(items) ==
  IF items = <<>> THEN <<>>
  ELSE << IF Head(items).content.t = "string" THEN Head(items).content.v ELSE "" >>
       \o ContentTexts(Tail(items))

\* `.join("\n")`
RECURSIVE JoinLines(_)
JoinLines(texts) ==
  IF texts = <<>> THEN ""
  ELSE IF Len(texts) = 1 THEN texts[1]
  ELSE texts[1] \o "\n" \o JoinLines(Tail(texts))

\* The content part (lines 119-131).
ContentParts(req) ==
  IF Truthy(req.prompt) THEN << TextPart(req.prompt.v) >>
  ELSE IF Truthy(req.messages)
       THEN LET text == JoinLines(ContentTexts(UserMessages(req.messages.items))) IN
            IF text # "" THEN << TextPart(text) >> ELSE <<>>
  ELSE <<>>

\* The system prompt part (lines 133-135).
SystemParts(req) ==
  IF Truthy(req.systemPrompt)
  THEN << TextPart("[System]: " \o req.systemPrompt.v) >>
  ELSE <<>>

\* Mutant of BuildParts: the system prompt part is pushed first.
BuildPartsSystemFirst(req) == SystemParts(req) \o ContentParts(req)

\* `const parts = []` and the pushes of lines 119-135, in order.
BuildParts(req) == ContentParts(req) \o SystemParts(req)

(***************************************************************************)
(* Outcomes of a call.                                                     *)
(***************************************************************************)
None == [kind |-> "none"]
Err(message) == [kind |-> "error", error |-> message]
\* The object complete() returns (lines 205-210).
Result(text, list, reason, use) ==
  [kind |-> "result", text |-> text,
   toolCalls |-> IF Len(list) > 0 THEN list ELSE <<>>,
   hasToolCalls |-> Len(list) > 0,
   stopReason |-> reason, usage |-> use]


(***************************************************************************)
(* streamComplete(): the events it yields for a returned result.           *)
(***************************************************************************)
\* The three yields of the body of `for (const tc of result.toolCalls ?? [])`.
ToolCallTriple(tc) ==
  << [type |-> "tool_call_start", id |-> tc.id, name |-> tc.name],
     [type |-> "tool_call_delta", id |-> tc.id, delta |-> tc.arguments],
     [type |-> "tool_call_end", id |-> tc.id, name |-> tc.name,
      arguments |-> tc.arguments] >>

RECURSIVE ToolCallEvents(_)
ToolCallEvents(list) ==
  IF list = <<>> THEN <<>>
  ELSE ToolCallTriple(Head(list)) \o ToolCallEvents(Tail(list))

\* Mutant of TextEvents: the text event is yielded also for an empty text.
TextEventsAlways(result) == << [type |-> "text", text |-> result.text] >>

\* `if (result.text) yield {type: "text", text: result.text}`
TextEvents(result) ==
  IF result.text # "" THEN << [type |-> "text", text |-> result.text] >> ELSE <<>>

\* Everything the generator yields after `await complete(options)` returned.
StreamEvents(result) ==
  TextEvents(result)
  \o ToolCallEvents(IF result.hasToolCalls THEN result.toolCalls ELSE <<>>)
  \o << [type |-> "done", result |-> result] >>

(***************************************************************************)
(* State of one call of complete(), possibly made by streamComplete().     *)
(***************************************************************************)
VARIABLES
  caller,         \* "complete" or "streamComplete": who made the call
  pc,             \* where complete() is suspended
  hasSignal,      \* options.abortSignal was supplied
  extAborted,     \* options.abortSignal.aborted
  abortedAt,      \* pc at the moment the external signal was aborted, or "never"
  listening,      \* the "abort" listener of line 79 is registered
  aborted,        \* abortController.signal.aborted
  calls,          \* how often each remote operation has been invoked
  serverClose,    \* the local serverClose is defined (line 103 was executed)
  sessionData,    \* what session.create returned: "none", "data", "nodata"
  promptPromise,  \* "none", "pending", "resolved" or "rejected"
  loopExit,       \* how the for-await loop ended, "none" before, "running" inside
  log,            \* the events the for-await loop has taken from the stream
  responseText,
  usage,
  outcome,        \* how the call settled: None, Err(..) or Result(..)
  generator,      \* streamComplete's generator: "none", "awaiting", "yielded", "completed", "failed"
  emitted,        \* the stream events the generator has yielded
  streamError,    \* what the generator threw, None if nothing
  request,        \* options.prompt, options.messages and options.systemPrompt
  stream,         \* the raw event stream when it is fixed in advance, else Unfixed
  parts,          \* the local `parts` of complete()
  promptBody,     \* the body handed to session.prompt, None before
  closeThrew,     \* the close handle threw when the finally block invoked it
  closeThrows,    \* the runtime's close handle is one that throws
  timeout,        \* options.timeout
  clock,          \* the time that has passed since the call was made
  mgrClient,      \* SessionManager: this.client, 0 for null, else the runtime it talks to
  mgrServerClose, \* SessionManager: this.serverClose, 0 for null, else the runtime it closes
  mgrSessionId,   \* SessionManager: this.sessionId, 0 for null, else the runtime of the session
  runtimes,       \* per runtime: its state and how often its close handle was invoked
  inits,          \* per init() call: where it is suspended
  closeLog,       \* one entry per close() call, in call order
  lastOp,         \* the operation of the manager that ran last
  models,         \* the registry's Map, as the list of its values in insertion order
  stored,         \* every model handed to models.set so far, in order
  added,          \* how many add() calls the registry has had
  lookup,         \* the query of the registry made since the last add(), and its answer
  pathProbe,      \* a provider/model pair or a path handed to the path functions, and the answers
  probe           \* an (event, target) pair handed to the filter, and its answer

callVars ==
  << caller, pc, hasSignal, extAborted, abortedAt, listening, aborted, calls,
     serverClose, sessionData, promptPromise, loopExit, log, responseText,
     usage, outcome, generator, emitted, streamError, parts, promptBody,
     closeThrew >>

\* What the caller and the remote runtime fix for the call.
inputVars == << request, stream, closeThrows, timeout, clock >>

\* The state outside the call of complete().
\* The SessionManager and the runtimes it acquired.
mgrVars ==
  << mgrClient, mgrServerClose, mgrSessionId, runtimes, inits, closeLog, lastOp >>
\* The inputs and answers of the pure functions.
pureVars == << probe, pathProbe >>
\* The model registry.
regVars == << models, stored, added, lookup >>
restVars == << pureVars, mgrVars, regVars >>
\* Everything but the SessionManager.
notMgrVars == << callVars, inputVars, pureVars, regVars >>
\* Everything but the model registry.
notRegVars == << callVars, inputVars, pureVars, mgrVars >>

vars == << callVars, inputVars, restVars >>

\* The update of a tool part of the call's session.
ToolPartEvent ==
  Event("message.part.updated",
        Props(Str(OwnId), Undef, Part(Str("tool"), Str("t")), Undef))

\* Mutant of toolCalls: a tool part seen by the loop is pushed to the list.
toolCallsCollected ==
  IF \E k \in 1..Len(log) : log[k] = ToolPartEvent
  THEN << [id |-> "c1", name |-> "t", arguments |-> "{}"] >>
  ELSE <<>>

\* `const toolCalls = []` and `let stopReason = "end_turn"` are never assigned again.
toolCalls == <<>>
stopReason == "end_turn"

NoCalls ==
  [createOpencode |-> 0, sessionCreate |-> 0, subscribe |-> 0, prompt |-> 0,
   close |-> 0]

NoProbe == [stage |-> "none"]
NoPathProbe == [stage |-> "none"]
InitPure == probe = NoProbe /\ pathProbe = NoPathProbe
NoLookup == [op |-> "none"]
\* No registry has been created.
NoRegistry == models = <<>> /\ stored = <<>> /\ added = 0 /\ lookup = NoLookup

InitCall ==
  /\ caller \in {"complete", "streamComplete"}
  /\ pc = "start"
  /\ hasSignal \in BOOLEAN
  /\ extAborted = FALSE
  /\ abortedAt = "never"
  /\ listening = FALSE
  /\ aborted = FALSE
  /\ calls = NoCalls
  /\ serverClose = FALSE
  /\ sessionData = "none"
  /\ promptPromise = "none"
  /\ loopExit = "none"
  /\ log = <<>>
  /\ responseText = ""
  /\ usage = ZeroUsage
  /\ outcome = None
  /\ generator = "none"
  /\ emitted = <<>>
  /\ streamError = None
  /\ parts = <<>>
  /\ promptBody = None
  /\ closeThrew = FALSE

\* The request of the modelled call when the request is not what is varied.
PlainRequest == Request(Str("hi"), Undef, Undef)

\* The stream is whatever the remote runtime delivers.
Unfixed == [fixed |-> FALSE]
\* The stream delivers exactly these events and then ends.
Fixed(events) == [fixed |-> TRUE, events |-> events]
\* The stream is whatever the remote runtime delivers out of these events.
Among(events) == [fixed |-> FALSE, among |-> events]

\* No timeout option, and time is not followed.
NoTimeout == timeout = Undef /\ clock = 0

InitInputs ==
  request = PlainRequest /\ stream = Unfixed /\ closeThrows = FALSE /\ NoTimeout

\* `new SessionManager(config)`: the three fields are null (lines 43-45), no
\* init() or close() has been called and no runtime exists.
InitManager ==
  /\ mgrClient = 0
  /\ mgrServerClose = 0
  /\ mgrSessionId = 0
  /\ runtimes = [r \in 1..MaxInits |-> [state |-> "none", closeCalls |-> 0]]
  /\ inits = [i \in 1..MaxInits |-> "idle"]
  /\ closeLog = <<>>
  /\ lastOp = "new"

Init == InitCall /\ InitInputs /\ InitPure /\ InitManager /\ NoRegistry

\* Mutant of ClosesAfter: the close handle is invoked at the end of the try
\* block, so only when a result is returned.
ClosesAfterSuccessOnly(o) == serverClose /\ o.kind = "result"

\* `serverClose?.()` of the finally block: the close handle is invoked when defined.
ClosesAfter(o) == serverClose

\* Mutant of Settled: what the close handle throws replaces the outcome.
SettledOrCloseError(o, handleThrew) ==
  IF handleThrew THEN [kind |-> "error", error |-> "close failed"] ELSE o

\* The `catch` of the finally block is empty (lines 214-216): the call
\* settles with what the try block returned or threw.
Settled(o, handleThrew) == o

\* The `finally` block (lines 211-217) followed by the settling of the call
\* with `o`: the close handle, when invoked, throws if it is one that does.
Finally(o) ==
  LET handleThrew == ClosesAfter(o) /\ closeThrows IN
  /\ calls' = IF ClosesAfter(o) THEN [calls EXCEPT !.close = @ + 1] ELSE calls
  /\ closeThrew' = handleThrew
  /\ outcome' = Settled(o, handleThrew)
  /\ pc' = "done"

\* The caller aborts the external signal; a registered listener aborts the
\* internal controller in the same dispatch. (Once the call has settled
\* nothing reads the signal any more.)
ExternalAbort ==
  /\ pc # "done"
  /\ hasSignal /\ ~extAborted
  /\ extAborted' = TRUE
  /\ abortedAt' = pc
  /\ aborted' = (aborted \/ listening)
  /\ UNCHANGED << caller, pc, hasSignal, listening, calls, serverClose,
                  sessionData, promptPromise, loopExit, log, responseText,
                  usage, outcome, generator, emitted, streamError,
                  closeThrew, parts, promptBody, inputVars, restVars >>

\* Mutant of PreAborted: the state of the supplied signal is not looked at.
PreAbortedIgnored == FALSE

\* `if (options.abortSignal) { if (options.abortSignal.aborted) throw ... }`
PreAborted == hasSignal /\ extAborted

\* complete() is entered and runs to its first await (lines 71-100).
Enter ==
  /\ pc = "start"
  /\ generator' = IF caller = "streamComplete" THEN "awaiting" ELSE "none"
  /\ IF PreAborted
     THEN /\ outcome' = Err("Aborted")
          /\ pc' = "done"
          /\ UNCHANGED << listening, calls >>
     ELSE /\ listening' = hasSignal
          /\ calls' = [calls EXCEPT !.createOpencode = @ + 1]
          /\ pc' = "createOpencode"
          /\ UNCHANGED outcome
  /\ UNCHANGED << caller, hasSignal, extAborted, abortedAt, aborted, serverClose,
                  sessionData, promptPromise, loopExit, log, responseText,
                  usage, emitted, streamError,
                  closeThrew, parts, promptBody, inputVars, restVars >>

\* createOpencode settles (lines 96-108).
CreateOpencodeSettles ==
  /\ pc = "createOpencode"
  /\ \/ /\ serverClose' = TRUE
        /\ calls' = [calls EXCEPT !.sessionCreate = @ + 1]
        /\ pc' = "sessionCreate"
        /\ UNCHANGED << outcome, closeThrew >>
     \/ /\ Finally(Err("createOpencode rejected"))
        /\ UNCHANGED serverClose
  /\ UNCHANGED << caller, hasSignal, extAborted, abortedAt, listening, aborted,
                  sessionData, promptPromise, loopExit, log, responseText,
                  usage, generator, emitted, streamError,
                  parts, promptBody, inputVars, restVars >>

\* Mutant of NoSessionData: the response is used without the test.
NoSessionDataUnchecked(data) == FALSE

\* `if (!session.data)`
NoSessionData(data) == data = "nodata"

\* session.create settles (lines 106-138).
SessionCreateSettles ==
  /\ pc = "sessionCreate"
  /\ \/ \E data \in {"data", "nodata"} :
          /\ sessionData' = data
          /\ IF NoSessionData(data)
             THEN Finally(Err("Failed to create session")) /\ UNCHANGED parts
             ELSE /\ parts' = BuildParts(request)
                  /\ calls' = [calls EXCEPT !.subscribe = @ + 1]
                  /\ pc' = "subscribe"
                  /\ UNCHANGED << outcome, closeThrew >>
     \/ /\ Finally(Err("session.create rejected"))
        /\ UNCHANGED << sessionData, parts >>
  /\ UNCHANGED << caller, hasSignal, extAborted, abortedAt, listening, aborted,
                  serverClose, promptPromise, loopExit, log, responseText,
                  usage, generator, emitted, streamError,
                  promptBody, inputVars, restVars >>

\* event.subscribe settles; on success the prompt is issued and the loop
\* asks the stream for its first event (lines 138-159).
SubscribeSettles ==
  /\ pc = "subscribe"
  /\ \/ /\ loopExit' = "running"
        /\ calls' = [calls EXCEPT !.prompt = @ + 1]
        /\ promptPromise' = "pending"
        /\ promptBody' = [kind |-> "body", parts |-> parts]
        /\ pc' = "loop"
        /\ UNCHANGED << outcome, closeThrew >>
     \/ /\ Finally(Err("event.subscribe rejected"))
        /\ UNCHANGED << loopExit, promptPromise, promptBody >>
  /\ UNCHANGED << caller, hasSignal, extAborted, abortedAt, listening, aborted,
                  serverClose, sessionData, log, responseText, usage, generator,
                  emitted, streamError,
                  parts, inputVars, restVars >>

\* The remote runtime settles the prompt submission. (Once the call has
\* settled nothing awaits the promise any more.)
PromptSettles ==
  /\ pc # "done"
  /\ promptPromise = "pending"
  /\ promptPromise' \in {"resolved", "rejected"}
  /\ UNCHANGED << caller, pc, hasSignal, extAborted, abortedAt, listening,
                  aborted, calls, serverClose, sessionData, loopExit, log,
                  responseText, usage, outcome, generator, emitted, streamError,
                  closeThrew, parts, promptBody, inputVars, restVars >>

\* The events the stream may deliver after the n it has delivered.
Deliverable(n) ==
  IF ~stream.fixed
  THEN (IF "among" \in DOMAIN stream THEN stream.among ELSE Events)
  ELSE IF n < Len(stream.events) THEN {stream.events[n + 1]}
  ELSE {}

\* Mutant of LoopSeesAbort: the loop never looks at the abort state.
LoopNeverSeesAbort == FALSE

\* Mutant of LoopSeesAbort: the loop also stops once the prompt has settled.
LoopSeesAbortOrSettled == aborted \/ promptPromise # "pending"

\* `if (abortController.signal.aborted) break`: what the loop polls per event.
LoopSeesAbort == aborted

\* The stream delivers an event and the loop body runs on it (lines 159-193).
LoopEvent ==
  /\ pc = "loop"
  /\ Len(log) < MaxEvents
  /\ \E event \in Deliverable(Len(log)) :
       LET r == LoopBody(event, LoopSeesAbort, OwnId, responseText, usage) IN
       /\ log' = Append(log, event)
       /\ responseText' = r.text
       /\ usage' = r.usage
       /\ CASE r.ctl = "continue" ->
                 UNCHANGED << pc, loopExit, calls, outcome, closeThrew >>
            [] r.ctl = "break" ->
                 /\ loopExit' = IF LoopSeesAbort THEN "aborted" ELSE "terminal"
                 /\ pc' = "awaitPrompt"
                 /\ UNCHANGED << calls, outcome, closeThrew >>
            [] r.ctl = "throw" ->
                 \* the abort test of line 160 just failed, so line 190 rethrows
                 /\ loopExit' = "typeError"
                 /\ Finally(Err("TypeError"))
  /\ UNCHANGED << caller, hasSignal, extAborted, abortedAt, listening, aborted,
                  serverClose, sessionData, promptPromise, generator, emitted,
                  streamError,
                  parts, promptBody, inputVars, restVars >>

\* Mutant of EndOfStreamRaises: a stream that ends before a terminal event
\* was seen is an error.
EndOfStreamRaisesAlways == TRUE

\* Nothing between the loop and `await promptPromise` (lines 188-196) looks
\* at how the loop ended: the end of the stream raises nothing.
EndOfStreamRaises == FALSE

\* The stream is exhausted: the loop exits normally.
StreamEnds ==
  /\ pc = "loop"
  /\ stream.fixed => Len(log) = Len(stream.events)
  /\ loopExit' = "exhausted"
  /\ IF EndOfStreamRaises
     THEN Finally(Err("stream ended"))
     ELSE /\ pc' = "awaitPrompt"
          /\ UNCHANGED << calls, outcome, closeThrew >>
  /\ UNCHANGED << caller, hasSignal, extAborted, abortedAt, listening, aborted,
                  serverClose, sessionData, promptPromise, log,
                  responseText, usage, generator, emitted, streamError,
                  parts, promptBody, inputVars, restVars >>

\* Mutant of LoopCatchRethrows: the catch rethrows whatever the abort state.
LoopCatchAlwaysRethrows == TRUE

\* `if (!abortController.signal.aborted) throw err` of the loop's catch.
LoopCatchRethrows == ~aborted

\* Iterating the stream throws (lines 189-193).
StreamThrows ==
  /\ pc = "loop"
  /\ ~stream.fixed
  /\ loopExit' = "threw"
  /\ IF LoopCatchRethrows
     THEN Finally(Err("stream error"))
     ELSE /\ pc' = "awaitPrompt"
          /\ UNCHANGED << calls, outcome, closeThrew >>
  /\ UNCHANGED << caller, hasSignal, extAborted, abortedAt, listening, aborted,
                  serverClose, sessionData, promptPromise, log, responseText,
                  usage, generator, emitted, streamError,
                  parts, promptBody, inputVars, restVars >>

\* Mutant of PromptCatchRethrows: the catch throws whatever the abort state.
PromptCatchAlwaysRethrows == TRUE

\* `if (!abortController.signal.aborted) throw new Error("Prompt failed")`
PromptCatchRethrows == ~aborted

\* Mutant of PromptAwaited: the prompt is awaited where it is issued, so its
\* settlement is seen while the loop is still running.
PromptAwaitedInLoop == pc \in {"loop", "awaitPrompt"}

\* `await promptPromise` stands behind the loop (line 196).
PromptAwaited == pc = "awaitPrompt"

\* `await promptPromise` returns or throws (lines 196-210).
AwaitPrompt ==
  /\ PromptAwaited
  /\ promptPromise \in {"resolved", "rejected"}
  /\ IF promptPromise = "rejected" /\ PromptCatchRethrows
     THEN Finally(Err("Prompt failed"))
     ELSE Finally(Result(responseText, toolCalls, stopReason, usage))
  /\ UNCHANGED << caller, hasSignal, extAborted, abortedAt, listening, aborted,
                  serverClose, sessionData, promptPromise, loopExit, log,
                  responseText, usage, generator, emitted, streamError,
                  parts, promptBody, inputVars, restVars >>

\* streamComplete(): the generator resumes after `await complete(options)`,
\* or at the consumer's next(), and runs to its next yield (lines 227-239).
GeneratorStep ==
  /\ pc = "done"
  /\ generator \in {"awaiting", "yielded"}
  /\ IF outcome.kind = "error"
     THEN /\ generator' = "failed"
          /\ streamError' = outcome
          /\ UNCHANGED emitted
     ELSE LET all == StreamEvents(outcome) IN
          /\ UNCHANGED streamError
          /\ IF Len(emitted) < Len(all)
             THEN /\ emitted' = Append(emitted, all[Len(emitted) + 1])
                  /\ generator' = "yielded"
             ELSE /\ generator' = "completed"
                  /\ UNCHANGED emitted
  /\ UNCHANGED << caller, pc, hasSignal, extAborted, abortedAt, listening,
                  aborted, calls, serverClose, sessionData, promptPromise,
                  loopExit, log, responseText, usage, outcome,
                  closeThrew, parts, promptBody, inputVars, restVars >>

Next ==
  \/ ExternalAbort
  \/ Enter
  \/ CreateOpencodeSettles
  \/ SessionCreateSettles
  \/ SubscribeSettles
  \/ PromptSettles
  \/ LoopEvent
  \/ StreamEnds
  \/ StreamThrows
  \/ AwaitPrompt
  \/ GeneratorStep

Spec == Init /\ [][Next]_vars

(***************************************************************************)
(* The event filter on its own: every (event, target) pair of a bounded    *)
(* set is handed to the test of line 165.                                  *)
(***************************************************************************)
\* What a sessionID field may hold: nothing, a non-string, or a string.
SessionIdValues == {Undef, Num(7), Str(""), Str(OwnId), Str(OtherId)}

FilterEvents ==
  { Event("session.status", Undef) }
  \cup { Event("session.status", Props(top, Undef, Undef, Undef)) :
           top \in SessionIdValues }
  \cup { Event("session.status", Props(top, Info(nested, Undef, Undef), Undef, Undef)) :
           top \in SessionIdValues, nested \in SessionIdValues }

FilterTargets == {"", OwnId, OtherId}

FilterInit ==
  /\ InitCall
  /\ InitInputs
  /\ InitManager
  /\ NoRegistry
  /\ pathProbe = NoPathProbe
  /\ probe \in [stage : {"asked"}, event : FilterEvents, target : FilterTargets,
                accepted : {FALSE}]

ApplyFilter ==
  /\ probe.stage = "asked"
  /\ probe' = [probe EXCEPT !.stage = "answered",
                            !.accepted = Accepts(probe.event, probe.target)]
  /\ UNCHANGED << callVars, inputVars, mgrVars, regVars, pathProbe >>

FilterNext == ApplyFilter

FilterSpec == FilterInit /\ [][FilterNext]_vars

(***************************************************************************)
(* SessionManager (session.ts).  init() call i acquires runtime i.  A step *)
(* is the code between two awaits; close() has no await and is one step.   *)
(***************************************************************************)
\* A call of complete() that is never started.
InitSession ==
  /\ InitCall /\ caller = "complete" /\ hasSignal = FALSE
  /\ InitInputs
  /\ InitPure
  /\ InitManager
  /\ NoRegistry

getSessionId == mgrSessionId
getClient == mgrClient

\* Mutant of AlreadyInitialized: the guard looks at the session id.
AlreadyInitializedBySessionId == mgrSessionId # 0

\* `if (this.client)` of line 56.
AlreadyInitialized == mgrClient # 0

\* Where an init() call can be: not made, suspended in one of its two
\* awaits, returned, or thrown with one of these errors.
InitErrors ==
  {"SessionManager already initialized", "createOpencode rejected",
   "session.create rejected", "Failed to create session"}
InitInFlight == {"createOpencode", "sessionCreate"}

\* init() is called (lines 55-70): it throws when this.client is set, else
\* it is suspended in createOpencode.
InitCalled(i) ==
  /\ inits[i] = "idle"
  /\ \A j \in 1..(i - 1) : inits[j] # "idle"
  /\ inits' = [inits EXCEPT ![i] = IF AlreadyInitialized
                                   THEN "SessionManager already initialized"
                                   ELSE "createOpencode"]
  /\ lastOp' = "init"
  /\ UNCHANGED << mgrClient, mgrServerClose, mgrSessionId, runtimes, closeLog,
                  notMgrVars >>

\* createOpencode settles (lines 70-82): on success the runtime exists, the
\* fields are assigned and session.create is issued on the new client.
InitCreateOpencodeSettles(i) ==
  /\ inits[i] = "createOpencode"
  /\ lastOp' = "init"
  /\ \/ /\ runtimes' = [runtimes EXCEPT ![i].state = "running"]
        /\ mgrClient' = i
        /\ mgrServerClose' = i
        /\ inits' = [inits EXCEPT ![i] = "sessionCreate"]
        /\ UNCHANGED mgrSessionId
     \/ /\ inits' = [inits EXCEPT ![i] = "createOpencode rejected"]
        /\ UNCHANGED << mgrClient, mgrServerClose, mgrSessionId, runtimes >>
  /\ UNCHANGED << closeLog, notMgrVars >>

\* session.create settles (lines 80-89).
InitSessionCreateSettles(i) ==
  /\ inits[i] = "sessionCreate"
  /\ lastOp' = "init"
  /\ \/ \E data \in {"data", "nodata"} :
          IF NoSessionData(data)
          THEN /\ inits' = [inits EXCEPT ![i] = "Failed to create session"]
               /\ UNCHANGED mgrSessionId
          ELSE /\ mgrSessionId' = i
               /\ inits' = [inits EXCEPT ![i] = "returned"]
     \/ /\ inits' = [inits EXCEPT ![i] = "session.create rejected"]
        /\ UNCHANGED mgrSessionId
  /\ UNCHANGED << mgrClient, mgrServerClose, runtimes, closeLog, notMgrVars >>

\* The catch of lines 112-114 is empty: close() raises nothing.
CloseRaisesUncaught(handleThrew) == handleThrew
CloseRaises(handleThrew) == FALSE

\* close() (lines 109-118): the handle, when set, is invoked and may throw;
\* whether a handle that threw stopped its runtime is not known.
Close ==
  /\ Len(closeLog) < MaxCloses
  /\ lastOp' = "close"
  /\ LET handle == mgrServerClose IN
     \E handleThrew \in (IF handle = 0 THEN {FALSE} ELSE BOOLEAN) :
       /\ IF handle = 0
          THEN UNCHANGED runtimes
          ELSE \E after \in (IF handleThrew THEN {runtimes[handle].state, "closed"}
                             ELSE {"closed"}) :
                 runtimes' = [runtimes EXCEPT ![handle].closeCalls = @ + 1,
                                              ![handle].state = after]
       /\ closeLog' = Append(closeLog,
                             [handle |-> handle,
                              raised |-> CloseRaises(handleThrew),
                              adjacent |-> lastOp = "close"])
       /\ IF CloseRaises(handleThrew)
          THEN UNCHANGED << mgrClient, mgrServerClose, mgrSessionId >>
          ELSE /\ mgrClient' = 0
               /\ mgrServerClose' = 0
               /\ mgrSessionId' = 0
  /\ UNCHANGED << inits, notMgrVars >>

SessionNext ==
  \/ \E i \in 1..MaxInits : InitCalled(i)
  \/ \E i \in 1..MaxInits : InitCreateOpencodeSettles(i)
  \/ \E i \in 1..MaxInits : InitSessionCreateSettles(i)
  \/ Close

SessionSpec == InitSession /\ [][SessionNext]_vars

\* Sequential use: a call is made only when no init() is suspended.
NoInitInFlight == \A i \in 1..MaxInits : inits[i] \notin InitInFlight

InitCalledInTurn(i) == NoInitInFlight /\ InitCalled(i)
CloseInTurn == NoInitInFlight /\ Close

SequentialNext ==
  \/ \E i \in 1..MaxInits : InitCalledInTurn(i)
  \/ \E i \in 1..MaxInits : InitCreateOpencodeSettles(i)
  \/ \E i \in 1..MaxInits : InitSessionCreateSettles(i)
  \/ CloseInTurn

SequentialSpec == InitSession /\ [][SequentialNext]_vars

(***************************************************************************)
(* Model paths (models.ts).  A string is a sequence of letters; the        *)
(* letter "/" is the separator, every other letter is slash-free.          *)
(***************************************************************************)
Slash == "/"
Letters == {"a", "b", Slash}

StringsUpTo(alphabet, n) == UNION {[1..k -> alphabet] : k \in 0..n}

\* Index of the first separator of a string that has one.
FirstSlash(str) == CHOOSE k \in 1..Len(str) :
                     str[k] = Slash /\ \A j \in 1..(k - 1) : str[j] # Slash

\* `str.split("/")`: the segments between the separators; a string without
\* separator, the empty one included, is its own single segment.
RECURSIVE Split(_)
Split(str) ==
  IF \A k \in 1..Len(str) : str[k] # Slash THEN << str >>
  ELSE << SubSeq(str, 1, FirstSlash(str) - 1) >>
       \o Split(SubSeq(str, FirstSlash(str) + 1, Len(str)))

\* formatModelPath (lines 181-183).
formatModelPath(provider, modelId) == provider \o << Slash >> \o modelId

ParsedPath(provider, modelId) ==
  [t |-> "object", provider |-> provider, modelId |-> modelId]

parseModelPathLoose(path) ==
  LET segments == Split(path) IN
  IF Len(segments) < 2 THEN Undef ELSE ParsedPath(segments[1], segments[2])

\* parseModelPath (lines 172-176).
parseModelPath(path) ==
  LET segments == Split(path) IN
  IF Len(segments) # 2 THEN Undef ELSE ParsedPath(segments[1], segments[2])

\* A pair to format and parse back, or a path to parse.
PathInit ==
  /\ InitCall /\ caller = "complete" /\ hasSignal = FALSE
  /\ InitInputs
  /\ InitManager
  /\ NoRegistry
  /\ probe = NoProbe
  /\ \/ pathProbe \in [stage : {"pair"},
                        provider : StringsUpTo(Letters \ {Slash}, MaxSegLen),
                        modelId : StringsUpTo(Letters \ {Slash}, MaxSegLen)]
     \/ pathProbe \in [stage : {"path"}, path : StringsUpTo(Letters, MaxPathLen)]

FormatPath ==
  /\ pathProbe.stage = "pair"
  /\ pathProbe' = [stage |-> "formatted",
                   provider |-> pathProbe.provider,
                   modelId |-> pathProbe.modelId,
                   path |-> formatModelPath(pathProbe.provider, pathProbe.modelId)]
  /\ UNCHANGED << callVars, inputVars, mgrVars, regVars, probe >>

ParsePath ==
  /\ pathProbe.stage \in {"formatted", "path"}
  /\ pathProbe' = [stage |-> "parsed",
                   from |-> pathProbe,
                   parsed |-> parseModelPath(pathProbe.path)]
  /\ UNCHANGED << callVars, inputVars, mgrVars, regVars, probe >>

PathNext == FormatPath \/ ParsePath

PathSpec == PathInit /\ [][PathNext]_vars

(***************************************************************************)
(* The model registry (models.ts).  Ids, providers and paths are strings   *)
(* in the sense above; a slash-free word is one letter.                    *)
(***************************************************************************)
Word(w) == << w >>
Model(id, name, provider) ==
  [t |-> "object", id |-> id, name |-> name, provider |-> provider]

DEFAULT_MODELS ==
  << Model(Word("claude-3-5-sonnet-20241022"), "Claude 3.5 Sonnet", Word("anthropic")),
     Model(Word("claude-3-opus-20240229"), "Claude 3 Opus", Word("anthropic")),
     Model(Word("gpt-4-turbo"), "GPT-4 Turbo", Word("openai")),
     Model(Word("gpt-4o"), "GPT-4o", Word("openai")),
     Model(Word("gemini-1.5-pro"), "Gemini 1.5 Pro", Word("google")) >>

\* `type KnownProvider`
KnownProvider ==
  {Word("anthropic"), Word("openai"), Word("google"), Word("openrouter"),
   Word("custom")}

\* `models.get(id)` on a Map given by its values in insertion order.
MapGet(map, id) ==
  IF \E k \in 1..Len(map) : map[k].id = id
  THEN map[CHOOSE k \in 1..Len(map) : map[k].id = id]
  ELSE Undef

MapSetIfAbsent(map, model) ==
  IF \E k \in 1..Len(map) : map[k].id = model.id THEN map
  ELSE Append(map, model)

\* `models.set(model.id, model)`: a present key keeps its place and gets the
\* new value, a new key goes to the end.
MapSet(map, model) ==
  IF \E k \in 1..Len(map) : map[k].id = model.id
  THEN [map EXCEPT ![CHOOSE k \in 1..Len(map) : map[k].id = model.id] = model]
  ELSE Append(map, model)

\* `for (const model of items) models.set(model.id, model)`
RECURSIVE MapSetAll(_, _)
MapSetAll(map, items) ==
  IF items = <<>> THEN map
  ELSE MapSetAll(MapSet(map, Head(items)), Tail(items))

\* The optional argument of createModelRegistry when it is given.
ModelList(items) == [t |-> "array", items |-> items]

\* The models handed to models.set by createModelRegistry, in order.
InitiallyStored(initialModels) ==
  DEFAULT_MODELS \o (IF Truthy(initialModels) THEN initialModels.items ELSE <<>>)

\* createModelRegistry (lines 99-112): the Map it builds.
createModelRegistry(initialModels) ==
  MapSetAll(MapSetAll(<<>>, DEFAULT_MODELS),
            IF Truthy(initialModels) THEN initialModels.items ELSE <<>>)

\* get (lines 115-117).
get(map, id) == MapGet(map, id)

\* getByPath (lines 119-137).
getByPath(map, path) ==
  LET segments == Split(path)
      fallback == MapGet(map, path)
  IN IF Len(segments) = 2
     THEN LET provider == segments[1]
              modelId == segments[2]
              model == MapGet(map, modelId)
              found == {k \in 1..Len(map) :
                         map[k].provider = provider /\ map[k].id = modelId}
          IN IF Truthy(model) /\ model.provider = provider THEN model
             ELSE IF found # {}
                  THEN map[CHOOSE k \in found : \A j \in found : k <= j]
             ELSE fallback
     ELSE fallback

\* list (lines 139-141).
list(map) == map

\* Models a caller registers beside the defaults: one under the id of a
\* default, two under one new id, one whose id has a separator in it.
CallerModels ==
  {Model(Word("gpt-4o"), "Mine", Word("custom")),
   Model(Word("x"), "X", Word("openai")),
   Model(Word("x"), "X2", Word("anthropic")),
   Model(Word("anthropic") \o << Slash >> \o Word("x"), "Routed", Word("openrouter"))}

\* The ids asked for: of a default, of caller models, of no model.
QueryIds ==
  {Word("gpt-4o"), Word("x"), Word("y"),
   Word("anthropic") \o << Slash >> \o Word("x")}

\* The paths asked for: each id alone and behind each of three providers.
QueryPaths ==
  QueryIds \cup {formatModelPath(p, i) :
                   p \in {Word("anthropic"), Word("openai"), Word("custom")},
                   i \in QueryIds}

RegistryInit ==
  /\ InitCall /\ caller = "complete" /\ hasSignal = FALSE
  /\ InitInputs
  /\ InitPure
  /\ InitManager
  /\ \E initialModels \in
         {Undef} \cup {ModelList(l) : l \in StringsUpTo(CallerModels, MaxInitial)} :
       /\ models = createModelRegistry(initialModels)
       /\ stored = InitiallyStored(initialModels)
  /\ added = 0
  /\ lookup = NoLookup

\* add (lines 147-149).
Add ==
  /\ added < MaxAdds
  /\ \E model \in CallerModels :
       /\ models' = MapSet(models, model)
       /\ stored' = Append(stored, model)
  /\ added' = added + 1
  /\ lookup' = NoLookup
  /\ UNCHANGED notRegVars

Get ==
  /\ \E id \in QueryIds :
       lookup' = [op |-> "get", arg |-> id, result |-> get(models, id)]
  /\ UNCHANGED << models, stored, added, notRegVars >>

GetByPath ==
  /\ \E path \in QueryPaths :
       lookup' = [op |-> "getByPath", arg |-> path,
                  result |-> getByPath(models, path)]
  /\ UNCHANGED << models, stored, added, notRegVars >>

List ==
  /\ lookup' = [op |-> "list", arg |-> Undef, result |-> list(models)]
  /\ UNCHANGED << models, stored, added, notRegVars >>

RegistryNext == Add \/ Get \/ GetByPath \/ List

RegistrySpec == RegistryInit /\ [][RegistryNext]_vars

(***************************************************************************)
(* Properties of complete().                                               *)
(***************************************************************************)

\* C1: once the runtime was acquired, the close handle has been invoked
\* exactly once when the call has settled, whatever the exit path; it is
\* never invoked while the outcome is still open, and never twice.
CloseExactlyOnce ==
  /\ calls.close <= 1
  /\ (calls.close = 1 => (pc = "done" /\ outcome # None /\ serverClose))
  /\ ((pc = "done" /\ serverClose) => calls.close = 1)

\* A call that acquired the runtime and failed with 'Prompt failed' has closed it.
ClosedAfterPromptFailed ==
  /\ pc = "done" /\ serverClose
  /\ outcome = Err("Prompt failed")
  /\ calls.close = 1

\* C2: a call entered with an already aborted signal fails with 'Aborted'
\* and performs no remote operation at all, close included.
PreAbortedFailsFast ==
  (hasSignal /\ abortedAt = "start") =>
     /\ pc \in {"start", "done"}
     /\ calls = NoCalls
     /\ (pc = "done" => outcome = Err("Aborted"))

\* The call with the pre-aborted signal has settled.
PreAbortedCallSettled == hasSignal /\ abortedAt = "start" /\ pc = "done"

\* C3: a call whose external signal was aborted while it was in the event
\* loop is rejected with the Aborted error; no accumulated result is returned.
AbortInLoopRejects ==
  (abortedAt = "loop" /\ pc = "done") => outcome = Err("Aborted")

\* C4: a stream error is rethrown as the outcome exactly when the internal
\* controller is not aborted where the error is caught; a swallowed stream
\* error never becomes the outcome.
StreamErrorIffNotAborted ==
  [][ /\ (loopExit' = "threw" /\ loopExit # "threw") =>
            IF aborted
            THEN pc' = "awaitPrompt" /\ outcome' = None
            ELSE pc' = "done" /\ outcome' = Err("stream error")
      /\ (outcome' = Err("stream error") /\ outcome # outcome') =>
            (pc = "loop" /\ loopExit' = "threw" /\ ~aborted) ]_vars

\* A stream error was swallowed after an abort and the call returned a result.
SwallowedStreamError ==
  loopExit = "threw" /\ aborted /\ pc = "done" /\ outcome.kind = "result"

\* C5: the step that awaits the prompt promise fails with 'Prompt failed'
\* when the promise rejected and the call is not cancelled, returns a result
\* when it rejected and the call is cancelled, and returns a result whenever
\* the promise resolved.
PromptFailurePolicy ==
  [][ pc = "awaitPrompt" =>
        /\ (pc' # pc => pc' = "done" /\ promptPromise \in {"resolved", "rejected"})
        /\ ((pc' = "done" /\ promptPromise = "rejected" /\ ~aborted) =>
              outcome' = Err("Prompt failed"))
        /\ ((pc' = "done" /\ promptPromise = "rejected" /\ aborted) =>
              outcome'.kind = "result")
        /\ ((pc' = "done" /\ promptPromise = "resolved") =>
              outcome'.kind = "result") ]_vars

\* A rejected prompt was swallowed by a cancelled call, which returned a result.
SwallowedPromptRejection ==
  pc = "done" /\ promptPromise = "rejected" /\ aborted /\ outcome.kind = "result"

\* C6: when session.create returns no data the call has failed with 'Failed
\* to create session', session.create was invoked once, subscribe and prompt
\* never, and the runtime was closed.
NoSessionDataIsFatal ==
  sessionData = "nodata" =>
     /\ pc = "done"
     /\ outcome = Err("Failed to create session")
     /\ calls.sessionCreate = 1
     /\ calls.subscribe = 0
     /\ calls.prompt = 0
     /\ calls.close = 1

\* session.create has answered without data.
SessionCreateGaveNoData == sessionData = "nodata" /\ pc = "done"

(***************************************************************************)
(* Properties of the event filter.                                         *)
(***************************************************************************)
\* The identifier of an event as the filter is described: the top-level
\* sessionID when a string, else info.sessionID when a string, else none.
IdentifierOf(event) ==
  IF event.properties.t # "object" THEN Undef
  ELSE IF event.properties.sessionID.t = "string" THEN event.properties.sessionID
  ELSE IF event.properties.info.t = "object"
          /\ event.properties.info.sessionID.t = "string"
       THEN event.properties.info.sessionID
  ELSE Undef

\* C7: the filter accepts an event iff its identifier equals the target,
\* for every identifier including the empty string; an event with no
\* identifier is accepted.
FilterAcceptsIffSameId ==
  probe.stage = "answered" =>
     (probe.accepted <=>
        (IdentifierOf(probe.event).t = "string" =>
           IdentifierOf(probe.event).v = probe.target))

(***************************************************************************)
(* Properties of the accumulator.                                          *)
(***************************************************************************)
\* The status of an event as the terminal condition is described: absent
\* when the event has no properties or no properties.status.
StatusOf(event) ==
  IF event.properties.t = "object" THEN event.properties.status ELSE Undef

IsAcceptedStatusEvent(event) ==
  /\ Truthy(event)
  /\ Accepts(event, OwnId)
  /\ event.type \in {"session.idle", "session.status"}

IsIdleStatus(status) ==
  \/ status.t \in {"undefined", "null"}
  \/ (status.t = "object" /\ status.type = Str("idle"))

\* C8: the loop ends without error at an accepted session.idle or
\* session.status event whose status is absent or of type idle, goes on at
\* one with another status, and once it has ended no event is consumed and
\* the accumulator no longer changes.
TerminalEventEndsLoop ==
  [][ /\ (pc = "loop" /\ log' # log) =>
            LET event == log'[Len(log')] IN
            /\ (IsAcceptedStatusEvent(event) /\ IsIdleStatus(StatusOf(event))) =>
                 (pc' = "awaitPrompt" /\ outcome' = None)
            /\ (~aborted /\ IsAcceptedStatusEvent(event)
                /\ ~IsIdleStatus(StatusOf(event))) =>
                 pc' = "loop"
      /\ (pc # "loop" =>
            (log' = log /\ responseText' = responseText /\ usage' = usage)) ]_vars

\* The events of the log that the loop body processed: the event at which
\* the loop found the controller aborted was dropped unprocessed.
Processed == IF loopExit = "aborted" THEN SubSeq(log, 1, Len(log) - 1) ELSE log

IsAcceptedTextUpdate(event) ==
  /\ Truthy(event)
  /\ Accepts(event, OwnId)
  /\ event.type = "message.part.updated"
  /\ event.properties.t = "object"
  /\ event.properties.part.t = "object"
  /\ event.properties.part.type = Str("text")

CarriedText(event) ==
  IF event.properties.part.text.t = "string"
  THEN event.properties.part.text.v
  ELSE ""

RECURSIVE LastTextOf(_)
LastTextOf(events) ==
  IF events = <<>> THEN ""
  ELSE LET event == events[Len(events)] IN
       IF IsAcceptedTextUpdate(event) THEN CarriedText(event)
       ELSE LastTextOf(SubSeq(events, 1, Len(events) - 1))

\* C9: the text of a returned result is the text of the last accepted text
\* part update that was processed, the empty string if there was none;
\* never a concatenation.
LastWriteWinsText ==
  (pc = "done" /\ outcome.kind = "result") => outcome.text = LastTextOf(Processed)

\* The bodies 'a', 'ab', 'abc' were processed in this order and the result is 'abc'.
ThreeUpdatesGiveAbc ==
  /\ pc = "done" /\ outcome.kind = "result"
  /\ log = << TextEvent(Str(OwnId), Str("a")), TextEvent(Str(OwnId), Str("ab")),
              TextEvent(Str(OwnId), Str("abc")) >>
  /\ loopExit = "exhausted"
  /\ outcome.text = "abc"

(***************************************************************************)
(* Properties of streamComplete().                                         *)
(***************************************************************************)
ToolCallsOf(result) == IF result.hasToolCalls THEN result.toolCalls ELSE <<>>

\* The number of events a result is to be replayed as.
ExpectedLen(result) ==
  (IF result.text # "" THEN 1 ELSE 0) + 3 * Len(ToolCallsOf(result)) + 1

\* Event `ev` is what the i-th event of the replay of `result` is to be.
IsExpectedAt(ev, result, i) ==
  LET k == IF result.text # "" THEN 1 ELSE 0
      offset == i - k - 1
  IN IF i = ExpectedLen(result) THEN ev.type = "done" /\ ev.result = result
     ELSE IF i <= k THEN ev.type = "text" /\ ev.text = result.text
     ELSE LET tc == ToolCallsOf(result)[(offset \div 3) + 1] IN
          /\ ev.type = << "tool_call_start", "tool_call_delta",
                          "tool_call_end" >>[(offset % 3) + 1]
          /\ ev.id = tc.id

SampleToolCalls ==
  LET read == [id |-> "c1", name |-> "read", arguments |-> "{}"]
      write == [id |-> "c2", name |-> "write", arguments |-> "{x}"]
  IN { <<>>, << read >>, << read, write >>, << write, read >> }

\* Results of the type CompleteResult, with and without tool calls.
SampleResults ==
  { Result(text, called, "end_turn", ZeroUsage) :
      text \in {"", "hi"}, called \in SampleToolCalls }

\* The replay computed for every sample result has the expected events.
SamplesReplayedInOrder ==
  \A result \in SampleResults :
     LET events == StreamEvents(result) IN
     /\ Len(events) = ExpectedLen(result)
     /\ \A i \in 1..Len(events) : IsExpectedAt(events[i], result, i)

\* C10: streamComplete yields nothing before complete() has settled; when
\* complete() failed it yields nothing and throws the same error; otherwise
\* it yields one text event iff the text is non-empty, then a start, delta,
\* end triple per tool call in order, then one done event with the result,
\* and nothing after it.
StreamCompleteOrder ==
  /\ (pc # "done" =>
        (emitted = <<>> /\ streamError = None
         /\ generator \in {"none", "awaiting"}))
  /\ (outcome.kind = "error" =>
        (emitted = <<>> /\ generator \in {"none", "awaiting", "failed"}
         /\ (generator = "failed" <=> streamError = outcome)))
  /\ (outcome.kind = "result" =>
        /\ streamError = None
        /\ generator # "failed"
        /\ Len(emitted) <= ExpectedLen(outcome)
        /\ \A i \in 1..Len(emitted) : IsExpectedAt(emitted[i], outcome, i)
        /\ (generator = "completed" => Len(emitted) = ExpectedLen(outcome)))
  /\ SamplesReplayedInOrder

\* The generator has replayed a result with text as a text event and a done event.
ReplayedTextThenDone ==
  /\ generator = "completed"
  /\ Len(emitted) = 2
  /\ emitted[1].type = "text"
  /\ emitted[2].type = "done"


(***************************************************************************)
(* Properties of SessionManager.                                           *)
(***************************************************************************)

\* C11: close() is idempotent.  No close() call raises, also when the close
\* handle throws; no runtime has its close handle invoked twice, and a
\* close() that directly follows a close() invokes no handle; when close()
\* has returned, getSessionId() and getClient() are null.
CloseIdempotent ==
  /\ \A k \in 1..Len(closeLog) :
       /\ ~closeLog[k].raised
       /\ closeLog[k].adjacent => closeLog[k].handle = 0
  /\ \A r \in 1..MaxInits : runtimes[r].closeCalls <= 1
  /\ lastOp = "close" => (getSessionId = 0 /\ getClient = 0)

\* A close() whose handle threw, directly followed by a second close().
ClosedTwiceAfterThrowingHandle ==
  /\ Len(closeLog) >= 2
  /\ lastOp = "close"
  /\ closeLog[Len(closeLog)].adjacent
  /\ closeLog[Len(closeLog) - 1].handle # 0
  /\ runtimes[closeLog[Len(closeLog) - 1].handle].state = "running"

\* A runtime that is running, whose close handle was never invoked, and
\* which the manager does not reference.
Leaked(r) ==
  /\ runtimes[r].state = "running"
  /\ runtimes[r].closeCalls = 0
  /\ mgrServerClose # r

\* C12: under every interleaving of init() and close(), no acquired runtime
\* is left that the manager no longer references and cannot release.
NoLeakedRuntime == \A r \in 1..MaxInits : ~Leaked(r)


(***************************************************************************)
(* Properties of the model paths and of the model registry.                *)
(***************************************************************************)
\* The number of separators of a string.
RECURSIVE Slashes(_)
Slashes(str) ==
  IF str = <<>> THEN 0
  ELSE (IF Head(str) = Slash THEN 1 ELSE 0) + Slashes(Tail(str))

\* C13: parsing the formatted path of a slash-free provider and a slash-free
\* model id gives that provider and that model id back; parsing a path that
\* has not exactly two segments (not exactly one separator) gives undefined.
ParseInvertsFormat ==
  pathProbe.stage = "parsed" =>
    /\ pathProbe.from.stage = "formatted" =>
         pathProbe.parsed = ParsedPath(pathProbe.from.provider,
                                       pathProbe.from.modelId)
    /\ Slashes(pathProbe.from.path) # 1 => pathProbe.parsed = Undef

\* The formatted path of a non-empty provider and model id was parsed back.
RoundTripParsed ==
  /\ pathProbe.stage = "parsed"
  /\ pathProbe.from.stage = "formatted"
  /\ pathProbe.from.provider # <<>>
  /\ pathProbe.from.modelId # <<>>
  /\ pathProbe.parsed # Undef


\* The model stored last under an id in a history of stores, undefined if none.
RECURSIVE LastStored(_, _)
LastStored(history, id) ==
  IF history = <<>> THEN Undef
  ELSE IF history[Len(history)].id = id THEN history[Len(history)]
  ELSE LastStored(SubSeq(history, 1, Len(history) - 1), id)

\* C14: get(id) answers the model stored last under the id, the stores being
\* ordered defaults, then initialModels in list order, then add() calls;
\* list() has exactly one model per stored id, the one stored last.
LastStoredWins ==
  /\ lookup.op = "get" =>
       lookup.result = LastStored(stored, lookup.arg)
  /\ lookup.op = "list" =>
       /\ \A j, k \in 1..Len(lookup.result) :
            lookup.result[j].id = lookup.result[k].id => j = k
       /\ {lookup.result[k].id : k \in 1..Len(lookup.result)}
            = {stored[k].id : k \in 1..Len(stored)}
       /\ \A k \in 1..Len(lookup.result) :
            lookup.result[k] = LastStored(stored, lookup.result[k].id)

\* The registry was created with an initial model under the id of a default
\* model, and get() of that id answered the initial model.
InitialModelReplacedDefault ==
  /\ lookup.op = "get"
  /\ lookup.arg = Word("gpt-4o")
  /\ added = 0
  /\ Len(stored) > Len(DEFAULT_MODELS)
  /\ stored[Len(DEFAULT_MODELS) + 1] = lookup.result
  /\ lookup.result.name = "Mine"

\* C15: for a path of exactly two segments, getByPath answers a model only
\* if the path is that model's provider, a separator, and its id.
ByPathMatchesSegments ==
  (lookup.op = "getByPath" /\ Slashes(lookup.arg) = 1 /\ lookup.result # Undef)
    => lookup.arg = formatModelPath(lookup.result.provider, lookup.result.id)


(***************************************************************************)
(* Order and interleaving in complete().                                   *)
(***************************************************************************)
\* How far a call has come.
Stage(at) ==
  CASE at = "start" -> 0
    [] at = "createOpencode" -> 1
    [] at = "sessionCreate" -> 2
    [] at = "subscribe" -> 3
    [] at = "loop" -> 4
    [] at = "awaitPrompt" -> 5
    [] at = "done" -> 6

\* C16: the remote operations of one call happen in the order createOpencode,
\* session.create, event.subscribe, session.prompt (issued, not awaited),
\* events, await of the prompt, close, each at most once; no event is
\* consumed before the prompt is issued, and the prompt's settlement is
\* acted on only after the loop has exited.
OperationsInOrder ==
  [][ /\ Stage(pc') >= Stage(pc)
      /\ \A op \in DOMAIN calls : calls'[op] <= 1
      /\ calls'.createOpencode # calls.createOpencode => pc = "start"
      /\ calls'.sessionCreate # calls.sessionCreate => pc = "createOpencode"
      /\ calls'.subscribe # calls.subscribe => pc = "sessionCreate"
      /\ calls'.prompt # calls.prompt =>
           (pc = "subscribe" /\ pc' = "loop" /\ promptPromise' = "pending")
      /\ log' # log => (pc = "loop" /\ calls.prompt = 1)
      /\ (pc' = "awaitPrompt" /\ pc # pc') =>
           (pc = "loop" /\ loopExit' \notin {"none", "running"})
      /\ (outcome' # outcome /\ outcome'.kind = "result") =>
           (pc = "awaitPrompt" /\ promptPromise # "pending")
      /\ (outcome' # outcome /\ outcome' = Err("Prompt failed")) =>
           pc = "awaitPrompt"
      /\ calls'.close # calls.close => (pc' = "done" /\ pc # "done")
    ]_vars

\* A call that went through every operation and returned a result.
AllOperationsDone ==
  /\ pc = "done"
  /\ \A op \in DOMAIN calls : calls[op] = 1
  /\ Len(log) >= 2
  /\ outcome.kind = "result"


\* The loop run alone over a list of events, from a text and a usage on:
\* how it ends and what it has accumulated then.
RECURSIVE Replay(_, _, _)
Replay(events, text, use) ==
  IF events = <<>> THEN [ctl |-> "exhausted", text |-> text, usage |-> use]
  ELSE LET r == LoopBody(Head(events), FALSE, OwnId, text, use) IN
       IF r.ctl = "continue" THEN Replay(Tail(events), r.text, r.usage) ELSE r

\* The streams fixed in advance: every list of up to MaxEvents events in
\* which some event is terminal for the call's session.
TerminatedStreams ==
  {s \in StringsUpTo(Events, MaxEvents) :
     \E k \in 1..Len(s) :
       LoopBody(s[k], FALSE, OwnId, "", ZeroUsage).ctl = "break"}

\* A call without abort signal on a stream fixed in advance.
OrderInit ==
  /\ InitCall /\ caller = "complete" /\ hasSignal = FALSE
  /\ request = PlainRequest
  /\ stream \in {Fixed(s) : s \in TerminatedStreams}
  /\ closeThrows = FALSE
  /\ NoTimeout
  /\ InitPure
  /\ InitManager
  /\ NoRegistry

\* The steps such a call can take; the prompt settles at any time.
OrderNext ==
  \/ Enter
  \/ CreateOpencodeSettles
  \/ SessionCreateSettles
  \/ SubscribeSettles
  \/ PromptSettles
  \/ LoopEvent
  \/ AwaitPrompt

OrderSpec == OrderInit /\ [][OrderNext]_vars

\* C17: for a fixed stream with a terminal event of the call's session and
\* a prompt that does not fail, what complete() settles with once its loop
\* has run is fixed by the stream alone, whenever the prompt settled.
SettlementOrderIrrelevant ==
  (pc = "done" /\ calls.prompt = 1 /\ promptPromise # "rejected") =>
    LET r == Replay(stream.events, "", ZeroUsage) IN
    outcome = IF r.ctl = "throw" THEN Err("TypeError")
              ELSE Result(r.text, <<>>, "end_turn", r.usage)

\* A call returned the text and usage of a stream of three events.
ReturnedAfterThreeEvents ==
  /\ pc = "done"
  /\ stream.fixed
  /\ Len(log) = 3
  /\ promptPromise = "resolved"
  /\ outcome.kind = "result"
  /\ outcome.text = "ab"
  /\ outcome.usage # ZeroUsage


\* C18: an event that carries an identifier other than the call's session
\* id changes neither text nor usage and does not end the loop, whatever its
\* type (as long as no abort makes the loop exit).
OtherSessionEventsIgnored ==
  [][ (log' # log /\ ~aborted
       /\ Truthy(log'[Len(log')])
       /\ IdentifierOf(log'[Len(log')]).t = "string"
       /\ IdentifierOf(log'[Len(log')]).v # OwnId)
      => (responseText' = responseText /\ usage' = usage /\ pc' = pc)
    ]_vars


\* C19: cancellation is polled per event.  Once the controller is aborted,
\* the next event the stream delivers, whatever it is, makes the loop exit
\* without raising and without changing text or usage; the abort itself
\* moves nothing: the call stays where it is until something is delivered.
CancellationPolledPerEvent ==
  [][ /\ (log' # log /\ aborted) =>
           /\ pc' = "awaitPrompt"
           /\ loopExit' = "aborted"
           /\ outcome' = None
           /\ responseText' = responseText
           /\ usage' = usage
      /\ aborted' # aborted =>
           /\ pc' = pc
           /\ loopExit' = loopExit
           /\ log' = log
           /\ outcome' = outcome
           /\ responseText' = responseText
           /\ usage' = usage
    ]_vars

\* The loop was aborted after its first event and left, without raising, at
\* a session.idle event that has no properties.
LeftLoopAtEventAfterAbort ==
  /\ pc = "awaitPrompt"
  /\ abortedAt = "loop"
  /\ loopExit = "aborted"
  /\ Len(log) >= 2
  /\ log[Len(log)] = Event("session.idle", Undef)
  /\ outcome = None


(***************************************************************************)
(* The parts of the prompt: complete() up to the submission of the prompt, *)
(* for every request of a bounded set.                                     *)
(***************************************************************************)
\* A message of each kind the parts depend on.
MessageKinds ==
  {Message("user", Str("m")), Message("user", Str("")),
   Message("user", ContentList), Message("assistant", Str("r"))}

Requests ==
  {Request(prompt, messages, systemPrompt) :
     prompt \in {Undef, Str(""), Str("hi")},
     messages \in {Undef} \cup {Messages(l) : l \in StringsUpTo(MessageKinds, MaxMessages)},
     systemPrompt \in {Undef, Str(""), Str("sys")}}

PartsInit ==
  /\ InitCall /\ caller = "complete" /\ hasSignal = FALSE
  /\ request \in Requests
  /\ stream = Unfixed
  /\ closeThrows = FALSE
  /\ NoTimeout
  /\ InitPure
  /\ InitManager
  /\ NoRegistry

PartsNext ==
  \/ Enter
  \/ CreateOpencodeSettles
  \/ SessionCreateSettles
  \/ SubscribeSettles

PartsSpec == PartsInit /\ [][PartsNext]_vars

\* The text a message contributes.
TextOf(message) ==
  IF message.content.t = "string" THEN message.content.v ELSE ""

\* The texts of the user messages among the first n, joined by line breaks.
RECURSIVE UserText(_, _)
UserText(items, n) ==
  IF n = 0 THEN [any |-> FALSE, text |-> ""]
  ELSE LET before == UserText(items, n - 1) IN
       IF items[n].role # "user" THEN before
       ELSE IF before.any
            THEN [any |-> TRUE, text |-> before.text \o "\n" \o TextOf(items[n])]
       ELSE [any |-> TRUE, text |-> TextOf(items[n])]

\* The parts described, for a given sense of "a string is given".
PartsWhen(req, Given(_)) ==
  LET text == IF req.messages.t = "array"
              THEN UserText(req.messages.items, Len(req.messages.items)).text
              ELSE ""
      content == IF Given(req.prompt) THEN << TextPart(req.prompt.v) >>
                 ELSE IF text # "" THEN << TextPart(text) >>
                 ELSE <<>>
      system == IF Given(req.systemPrompt)
                THEN << TextPart("[System]: " \o req.systemPrompt.v) >>
                ELSE <<>>
  IN content \o system

IsString(value) == value.t = "string"
IsNonEmptyString(value) == value.t = "string" /\ value.v # ""

\* The prompt is submitted exactly when event.subscribe succeeded, with the
\* given parts, at most two of them.
SubmittedWith(expected) ==
  /\ (promptBody # None) <=> (calls.prompt = 1)
  /\ pc = "loop" => promptBody # None
  /\ promptBody # None =>
       /\ promptBody.parts = expected
       /\ Len(promptBody.parts) <= 2

\* C20 as stated: a prompt that is a string, the empty one included, is the
\* single content part and the messages are ignored; else the joined text
\* of the user messages when not empty; a system prompt that is a string
\* adds the last part "[System]: <systemPrompt>"; at most two parts, and the
\* prompt is submitted also with no parts.
PartsAsStated == SubmittedWith(PartsWhen(request, IsString))

\* C20: the same with "present" and "provided" read as "a non-empty string":
\* an empty prompt gives way to the messages, an empty system prompt adds
\* no part.
PartsOfNonEmptyStrings == SubmittedWith(PartsWhen(request, IsNonEmptyString))

\* Two user messages and a system prompt were submitted as two parts.
SubmittedMessagesAndSystem ==
  /\ request = Request(Undef,
                       Messages(<< Message("user", Str("m")),
                                   Message("user", ContentList) >>),
                       Str("sys"))
  /\ promptBody # None
  /\ promptBody.parts = << TextPart("m\n"), TextPart("[System]: sys") >>


(***************************************************************************)
(* Cleanup, usage and results of complete().                               *)
(***************************************************************************)
\* A call of complete() whose runtime has a close handle that may be one
\* that throws.
CleanupInit ==
  /\ InitCall /\ caller = "complete"
  /\ request = PlainRequest
  /\ stream = Unfixed
  /\ closeThrows \in BOOLEAN
  /\ NoTimeout
  /\ InitPure
  /\ InitManager
  /\ NoRegistry

CleanupNext ==
  \/ ExternalAbort
  \/ Enter
  \/ CreateOpencodeSettles
  \/ SessionCreateSettles
  \/ SubscribeSettles
  \/ PromptSettles
  \/ LoopEvent
  \/ StreamEnds
  \/ StreamThrows
  \/ AwaitPrompt

CleanupSpec == CleanupInit /\ [][CleanupNext]_vars

\* What the try block of a settled call returned or threw, read off from
\* how far the call came; the close handle plays no part in it.
Primary ==
  IF calls.createOpencode = 0 THEN Err("Aborted")
  ELSE IF ~serverClose THEN Err("createOpencode rejected")
  ELSE IF sessionData = "none" THEN Err("session.create rejected")
  ELSE IF sessionData = "nodata" THEN Err("Failed to create session")
  ELSE IF calls.prompt = 0 THEN Err("event.subscribe rejected")
  ELSE IF loopExit = "typeError" THEN Err("TypeError")
  ELSE IF loopExit = "threw" /\ ~aborted THEN Err("stream error")
  ELSE IF promptPromise = "rejected" /\ ~aborted THEN Err("Prompt failed")
  ELSE Result(responseText, <<>>, "end_turn", usage)

\* C21: a close handle that throws in the cleanup of complete() changes
\* nothing: the call settles with the result or the error of its try block,
\* and the handle has been invoked all the same.
CloseErrorSwallowed ==
  pc = "done" =>
    /\ outcome = Primary
    /\ closeThrew => calls.close = 1

\* A call returned its result although the close handle threw.
ReturnedAlthoughCloseThrew ==
  /\ pc = "done"
  /\ closeThrew
  /\ outcome.kind = "result"
  /\ outcome.text # ""


\* An event the filter accepts that is a message update of an assistant
\* message carrying token counts.
IsAssistantTokenUpdate(event) ==
  /\ Truthy(event)
  /\ Accepts(event, OwnId)
  /\ event.type = "message.updated"
  /\ event.properties.t = "object"
  /\ event.properties.info.t = "object"
  /\ event.properties.info.role = Str("assistant")
  /\ event.properties.info.tokens.t = "object"

\* The usage such an event stands for: its counts, 0 for a missing one.
UsageOf(event) ==
  LET tokens == event.properties.info.tokens
      input == IF tokens.input.t = "number" THEN tokens.input.v ELSE 0
      output == IF tokens.output.t = "number" THEN tokens.output.v ELSE 0
  IN [inputTokens |-> input, outputTokens |-> output,
      totalTokens |-> input + output]

\* The total is the sum, and without a processed update usage is zero.
UsageConsistent ==
  /\ usage.totalTokens = usage.inputTokens + usage.outputTokens
  /\ (\A k \in 1..Len(Processed) : ~IsAssistantTokenUpdate(Processed[k]))
       => usage = ZeroUsage

\* A step changes usage only by processing such an update, and processing
\* one sets usage to the counts of that event.
UsageStep ==
  /\ usage' # usage =>
       (log' # log /\ ~aborted /\ IsAssistantTokenUpdate(log'[Len(log')]))
  /\ (log' # log /\ ~aborted /\ IsAssistantTokenUpdate(log'[Len(log')])) =>
       usage' = UsageOf(log'[Len(log')])

\* C22: usage changes only when an accepted message update of an assistant
\* message with tokens is processed, and is then overwritten with that
\* event's counts; in every state the total is input plus output, and
\* usage is all zeros when no such event was processed.
UsageOverwrittenByTokenUpdates == []UsageConsistent /\ [][UsageStep]_vars

\* The same token update was processed twice and usage holds its counts once.
SameUpdateTwiceCountedOnce ==
  /\ Len(log) >= 2
  /\ log[1] = UsageEvent(Str(OwnId), Str("assistant"), Tokens(Num(1), Num(2)))
  /\ log[2] = log[1]
  /\ abortedAt = "never"
  /\ usage = [inputTokens |-> 1, outputTokens |-> 2, totalTokens |-> 3]


(***************************************************************************)
(* Termination of complete(): the call with the time that passes and the   *)
(* timeout option, on a stream of a few kinds of events.                   *)
(***************************************************************************)
\* `timeout: options.timeout ?? 120_000`: the option is handed to
\* createOpencode and used nowhere else.
DefaultTimeout == 120000
ForwardedTimeout == Coalesce(timeout, DefaultTimeout)

\* Text, usage, a terminal event of another session, a busy status, a
\* terminal event of the call's session.
LiveEvents ==
  { TextEvent(Str(OwnId), Str("a")),
    UsageEvent(Str(OwnId), Str("assistant"), Tokens(Num(1), Num(2))),
    StatusEvent("session.idle", Str(OtherId), Undef),
    StatusEvent("session.status", Str(OwnId), Status(Str("busy"))),
    StatusEvent("session.idle", Str(OwnId), Undef) }

LiveInit ==
  /\ InitCall /\ caller = "complete" /\ hasSignal = FALSE
  /\ request = PlainRequest
  /\ stream = Among(LiveEvents)
  /\ closeThrows = FALSE
  /\ timeout \in {Undef, Num(0), Num(1)}
  /\ clock = 0
  /\ InitPure
  /\ InitManager
  /\ NoRegistry

\* Time passes; complete() arms no timer, so nothing else happens.
Tick ==
  /\ pc # "done"
  /\ clock < MaxTicks
  /\ clock' = clock + 1
  /\ UNCHANGED << callVars, request, stream, closeThrows, timeout, restVars >>

LiveNext ==
  \/ Enter
  \/ CreateOpencodeSettles
  \/ SessionCreateSettles
  \/ SubscribeSettles
  \/ PromptSettles
  \/ LoopEvent
  \/ StreamEnds
  \/ StreamThrows
  \/ AwaitPrompt
  \/ Tick

\* Every remote operation settles, the continuation of a settled await
\* runs, and the stream goes on until it has delivered a terminal event,
\* ended or failed.
LiveFairness ==
  /\ WF_vars(Enter)
  /\ WF_vars(CreateOpencodeSettles)
  /\ WF_vars(SessionCreateSettles)
  /\ WF_vars(SubscribeSettles)
  /\ WF_vars(PromptSettles)
  /\ WF_vars(AwaitPrompt)
  /\ WF_vars(LoopEvent \/ StreamEnds \/ StreamThrows)

LiveSpec == LiveInit /\ [][LiveNext]_vars /\ LiveFairness

\* The call has settled and the runtime, if acquired, was closed.
SettledAndClosed ==
  /\ pc = "done"
  /\ outcome # None
  /\ serverClose => calls.close = 1

\* The call leaves the loop only when the stream delivers an event, ends or
\* fails; an event that is neither a status event nor malformed keeps the
\* call in the loop; time alone moves nothing, whatever the timeout.
OnlyTheStreamEndsTheLoop ==
  /\ (pc = "loop" /\ pc' # "loop") =>
       (log' # log \/ loopExit' \in {"exhausted", "threw"})
  /\ (log' # log /\ ~aborted
       /\ log'[Len(log')].type \in {"message.part.updated", "message.updated"}
       /\ log'[Len(log')].properties.t = "object") => (pc' = "loop" /\ outcome' = None)
  /\ clock' # clock => (pc' = pc /\ outcome' = outcome /\ calls' = calls)

\* C23: if every remote operation settles and the stream delivers a terminal
\* event, ends or fails, the call settles and the acquired runtime is
\* closed; nothing but the stream takes the call out of its loop, so with
\* a stream that goes on without terminal event the call does not settle,
\* whatever the timeout option and however much time passes.
SettlesIffStreamLetsIt == <>SettledAndClosed /\ [][OnlyTheStreamEndsTheLoop]_vars

\* The call is still in its loop, unsettled, after more time than the
\* timeout option allows has passed and two events were delivered.
InLoopPastTimeout ==
  /\ pc = "loop"
  /\ timeout = Num(1)
  /\ clock > ForwardedTimeout
  /\ Len(log) >= 2
  /\ outcome = None


\* C24: when the stream ends without a terminal event of the call's session
\* and without cancellation, the loop is left without an outcome and, with
\* the prompt resolved, the call returns what was accumulated: the text of
\* the last accepted text update and the usage, as a result.
ExhaustedStreamReturns ==
  loopExit = "exhausted" =>
    /\ pc \in {"awaitPrompt", "done"}
    /\ pc = "awaitPrompt" => outcome = None
    /\ (pc = "done" /\ abortedAt = "never" /\ promptPromise = "resolved") =>
         outcome = Result(LastTextOf(log), <<>>, "end_turn", usage)

\* A stream ended after a text update and a busy status; the call returned
\* the text.
ReturnedAfterStreamEnded ==
  /\ pc = "done"
  /\ loopExit = "exhausted"
  /\ abortedAt = "never"
  /\ promptPromise = "resolved"
  /\ log = << TextEvent(Str(OwnId), Str("a")),
              StatusEvent("session.status", Str(OwnId), Status(Str("busy"))) >>
  /\ outcome.kind = "result"
  /\ outcome.text = "a"


ToolCallEventTypes == {"tool_call_start", "tool_call_delta", "tool_call_end"}

\* C25: whatever the stream delivers, a returned result has the stop reason
\* "end_turn" and no tool calls, and streamComplete() yields no tool call
\* event.
NoToolCallsEver ==
  /\ outcome.kind = "result" =>
       /\ outcome.stopReason = "end_turn"
       /\ ~outcome.hasToolCalls
       /\ outcome.toolCalls = <<>>
  /\ \A k \in 1..Len(emitted) : emitted[k].type \notin ToolCallEventTypes

\* streamComplete() replayed a call whose loop had processed the update of
\* a tool part.
ReplayedAfterToolPart ==
  /\ caller = "streamComplete"
  /\ generator = "completed"
  /\ abortedAt = "never"
  /\ \E k \in 1..Len(log) : log[k] = ToolPartEvent
  /\ Len(emitted) = 2
  /\ emitted[1].type = "text"
  /\ emitted[2].type = "done"


(***************************************************************************)
(* SessionManager in sequential use.                                       *)
(***************************************************************************)
\* A session id comes with a client and a close handle; a runtime that
\* runs and was never closed is the one the manager holds; after an init()
\* that failed for want of session data, and until close(), the manager
\* holds that init()'s runtime and no session id.
ManagerConsistent ==
  /\ mgrSessionId # 0 => (mgrClient # 0 /\ mgrServerClose # 0)
  /\ \A r \in 1..MaxInits :
       (runtimes[r].state = "running" /\ runtimes[r].closeCalls = 0)
         => (mgrClient = r /\ mgrServerClose = r)
  /\ \A i \in 1..MaxInits :
       (inits[i] = "Failed to create session" /\ runtimes[i].closeCalls = 0)
         => (mgrClient = i /\ mgrSessionId = 0 /\ runtimes[i].state = "running")

\* An init() called while the client is set throws "already initialized"
\* and changes nothing; called while it is null it goes on to acquire a
\* runtime; only close() stops a runtime.
ManagerStep ==
  /\ \A i \in 1..MaxInits :
       (inits[i] = "idle" /\ inits'[i] # "idle") =>
         IF mgrClient # 0
         THEN /\ inits'[i] = "SessionManager already initialized"
              /\ UNCHANGED << mgrClient, mgrServerClose, mgrSessionId, runtimes,
                              closeLog >>
         ELSE inits'[i] = "createOpencode"
  /\ \A r \in 1..MaxInits :
       (runtimes[r].state = "running" /\ runtimes'[r].state # "running")
         => (Len(closeLog') = Len(closeLog) + 1
             /\ closeLog'[Len(closeLog')].handle = r)

\* C26: in sequential use a session id implies a client and a close handle;
\* init() on a manager with a client throws "SessionManager already
\* initialized" and changes no state; after "Failed to create session" the
\* runtime stays held with no session id, a further init() is rejected and
\* only close() releases the runtime, after which init() is accepted again.
SequentialManagerStates == []ManagerConsistent /\ [][ManagerStep]_vars

\* init() failed for want of session data, a second init() was rejected,
\* close() released the runtime, and a third init() returned a session.
InitSucceededAfterFailureAndClose ==
  /\ inits = << "Failed to create session", "SessionManager already initialized",
                "returned" >>
  /\ runtimes[1].closeCalls = 1
  /\ runtimes[2].state = "none"
  /\ mgrClient = 3
  /\ mgrSessionId = 3

====
